---------------------------- MODULE Spec2Model ----------------------------
(***************************************************************************)
(* A model of src/main.py (class AudioProcessor): the text functions       *)
(* (_regex_sentence_split, extract_key_phrases, chunk_text), the           *)
(* summarization adapter (_load_summarizer, summarize_text) and the        *)
(* orchestrator (process_pipeline, process_batch).                         *)
(*                                                                         *)
(* A text is a sequence of characters, each character a string.  The       *)
(* Arabic-script characters are written by their code points.              *)
(***************************************************************************)
EXTENDS Integers, Sequences, FiniteSets, TLC

VARIABLES
    segText, segLang, segOut,        \* a call of _regex_sentence_split: arguments, result
    segPc,
    chText, chLang, chMax, chOut,    \* a call of chunk_text: arguments, the chunks yielded
    chPc,
    kpText, kpLang, kpOut,           \* a call of extract_key_phrases: arguments, result
    kpPc,
    summarizer,                      \* self.summarizer: None or the model loaded
    sumCall,                         \* the last call of summarize_text: what it was given,
                                     \*   what it did and what it returned
    nSum,                            \* calls of summarize_text so far
    whisper_model,                   \* self.whisper_model: None or the model loaded
    loadLog,                         \* the loads of a model tried so far, and how each went
    dirItems,                        \* the stems of the *.mp3 files of audio_dir, in glob order
    audioFiles,                      \* the stems whose audio/<stem>.mp3 exists
    files,                           \* the artifacts on disk: path -> content
    pc,                              \* where process_pipeline stands
    pipe,                            \* its arguments and local variables
    results,                         \* its dict results
    stagesRun,                       \* the stages it has entered, in order
    failedStage,                     \* the stage that raised, or None
    batch,                           \* process_batch: its state, loop position and results
    started, failedItems,            \* the stems whose pipeline was called / has failed
    faults                           \* failures of the environment so far

segVars == <<segText, segLang, segOut, segPc>>
chVars  == <<chText, chLang, chMax, chOut, chPc>>
kpVars  == <<kpText, kpLang, kpOut, kpPc>>
sumVars == <<summarizer, sumCall, nSum>>
instVars == <<whisper_model, loadLog, dirItems, audioFiles, files>>
pipeVars == <<pc, pipe, results, stagesRun, failedStage>>
batchVars == <<batch, started, failedItems, faults>>
orchVars == <<instVars, pipeVars, batchVars>>
vars == <<segVars, chVars, kpVars, sumVars, orchVars>>

None == "None"
\* an optional argument left out: <<>>; given: <<value>>
NoArg == <<>>

(***************************************************************************)
(* Characters                                                              *)
(***************************************************************************)
UrFullStop == "U+06D4"
UrQuestion == "U+061F"
UrAlef     == "U+0627"
UrBeh      == "U+0628"
UrPeh      == "U+067E"

Languages == {"ur", "en"}

\* str.strip() and str.split() with no argument work on whitespace
Whitespace == {" ", "\t", "\n"}

AsciiLower == { "a", "b", "c", "d", "e", "f", "g", "h", "i", "j", "k", "l", "m",
                "n", "o", "p", "q", "r", "s", "t", "u", "v", "w", "x", "y", "z" }
AsciiUpperSeq == << "A", "B", "C", "D", "E", "F", "G", "H", "I", "J", "K", "L", "M",
                   "N", "O", "P", "Q", "R", "S", "T", "U", "V", "W", "X", "Y", "Z" >>
AsciiLowerSeq == << "a", "b", "c", "d", "e", "f", "g", "h", "i", "j", "k", "l", "m",
                   "n", "o", "p", "q", "r", "s", "t", "u", "v", "w", "x", "y", "z" >>
AsciiUpper == { AsciiUpperSeq[i] : i \in 1..Len(AsciiUpperSeq) }
Digits == { "0", "1", "2", "3", "4", "5", "6", "7", "8", "9" }

\* the letters of the block U+0600..U+06FF that the instance's tables use
ArabicLetters == { "U+0643", "U+064A",
                   "U+0627", "U+0628", "U+062A", "U+062C", "U+0631", "U+0633", "U+0644", "U+0645",
                   "U+0646", "U+0648", "U+067E", "U+06A9", "U+06BA", "U+06BE", "U+06C1", "U+06CC", "U+06D2" }
UrComma == "U+060C"
\* the characters of [\u0600-\u06FF]: letters and the block's punctuation
ArabicBlock == ArabicLetters \cup { UrFullStop, UrQuestion, UrComma }

\* \w of a str pattern: alphanumerics of any script and the underscore
WordChars == AsciiLower \cup AsciiUpper \cup Digits \cup ArabicLetters \cup { "_" }

\* str.lower() on one character
LowerChar(c) ==
    IF c \in AsciiUpper
    THEN AsciiLowerSeq[CHOOSE i \in 1..Len(AsciiUpperSeq) : AsciiUpperSeq[i] = c]
    ELSE c

Min(S) == CHOOSE i \in S : \A j \in S : i <= j

(***************************************************************************)
(* Strings.  The operators recurse by halving the range, so that a text    *)
(* of several hundred words is within reach.                               *)
(***************************************************************************)
\* the indices lo..hi at which flag holds, ascending
RECURSIVE Indices(_, _, _)
Indices(flag, lo, hi) ==
    IF lo > hi THEN <<>>
    ELSE IF lo = hi THEN (IF flag[lo] THEN <<lo>> ELSE <<>>)
    ELSE LET mid == (lo + hi) \div 2
         IN  Indices(flag, lo, mid) \o Indices(flag, mid + 1, hi)

\* the concatenation of parts[lo..hi], sep between two parts
RECURSIVE JoinRange(_, _, _, _)
JoinRange(sep, parts, lo, hi) ==
    IF lo > hi THEN <<>>
    ELSE IF lo = hi THEN parts[lo]
    ELSE LET mid == (lo + hi) \div 2
         IN  JoinRange(sep, parts, lo, mid) \o sep \o JoinRange(sep, parts, mid + 1, hi)

\* sep.join(parts)
Join(sep, parts) == JoinRange(sep, parts, 1, Len(parts))

\* s.strip()
Strip(s) ==
    LET n == Len(s)
        keep == Indices([i \in 1..n |-> s[i] \notin Whitespace], 1, n)
    IN  IF keep = <<>> THEN <<>> ELSE SubSeq(s, keep[1], keep[Len(keep)])

\* s.split(): the maximal runs of non-whitespace characters
Words(s) ==
    LET n      == Len(s)
        first  == [i \in 1..n |-> s[i] \notin Whitespace
                                  /\ (i = 1 \/ s[i - 1] \in Whitespace)]
        last   == [i \in 1..n |-> s[i] \notin Whitespace
                                  /\ (i = n \/ s[i + 1] \in Whitespace)]
        starts == Indices(first, 1, n)
        ends   == Indices(last, 1, n)
    IN  [k \in 1..Len(starts) |-> SubSeq(s, starts[k], ends[k])]

\* the maximal runs of characters of the set class
RunsOf(class, s) ==
    LET n      == Len(s)
        first  == [i \in 1..n |-> s[i] \in class /\ (i = 1 \/ s[i - 1] \notin class)]
        last   == [i \in 1..n |-> s[i] \in class /\ (i = n \/ s[i + 1] \notin class)]
        starts == Indices(first, 1, n)
        ends   == Indices(last, 1, n)
    IN  [k \in 1..Len(starts) |-> SubSeq(s, starts[k], ends[k])]

\* re.split(r'[...]', s) and s.split(c): the pieces between the characters of seps;
\* k separators give k + 1 pieces, empty ones included
SplitOn(seps, s) ==
    LET n    == Len(s)
        isSep == [i \in 1..n |-> s[i] \in seps]
        cuts == Indices(isSep, 1, n)
        from(k) == IF k = 1 THEN 1 ELSE cuts[k - 1] + 1
        to(k)   == IF k = Len(cuts) + 1 THEN n ELSE cuts[k] - 1
    IN  [k \in 1..(Len(cuts) + 1) |-> SubSeq(s, from(k), to(k))]

\* s.find(sub), counted from 0; -1 when sub does not occur
Find(s, sub) ==
    LET at == {i \in 0..(Len(s) - Len(sub)) : SubSeq(s, i + 1, i + Len(sub)) = sub}
    IN  IF at = {} THEN -1 ELSE Min(at)

(***************************************************************************)
(* AudioProcessor.__init__: the tables of the instance                     *)
(***************************************************************************)
StopWordsUr ==
    { <<"U+0627", "U+0648", "U+0631">>, <<"U+06A9", "U+0627">>, <<"U+06A9", "U+06D2">>,
      <<"U+06A9", "U+06CC">>, <<"U+0645", "U+06CC", "U+06BA">>, <<"U+0633", "U+06D2">>,
      <<"U+06A9", "U+0648">>, <<"U+0646", "U+06D2">>, <<"U+06C1", "U+06D2">>,
      <<"U+06C1", "U+06CC", "U+06BA">>, <<"U+062A", "U+06BE", "U+0627">>,
      <<"U+062A", "U+06BE", "U+06D2">>, <<"U+06CC", "U+06C1">>, <<"U+0648", "U+06C1">>,
      <<"U+062C", "U+0648">>, <<"U+06A9", "U+06C1">>, <<"U+0644", "U+06CC", "U+06D2">>,
      <<"U+0633", "U+0627", "U+062A", "U+06BE">>, <<"U+0628", "U+06BE", "U+06CC">>,
      <<"U+062A", "U+0648">>, <<"U+067E", "U+0631">>, <<"U+0627", "U+0633">>,
      <<"U+0627", "U+0646">>, <<"U+0627", "U+06CC", "U+06A9">> }

StopWordsEn ==
    { <<"t", "h", "e">>, <<"a", "n", "d">>, <<"o", "r">>, <<"b", "u", "t">>,
      <<"i", "n">>, <<"o", "n">>, <<"a", "t">>, <<"t", "o">>, <<"f", "o", "r">>,
      <<"o", "f">>, <<"w", "i", "t", "h">>, <<"b", "y">>, <<"a">>, <<"a", "n">>,
      <<"i", "s">>, <<"a", "r", "e">>, <<"w", "a", "s">>, <<"w", "e", "r", "e">>,
      <<"b", "e">>, <<"b", "e", "e", "n">>, <<"h", "a", "v", "e">>, <<"h", "a", "s">>,
      <<"h", "a", "d">>, <<"d", "o">>, <<"d", "o", "e", "s">>, <<"d", "i", "d">>,
      <<"w", "i", "l", "l">>, <<"w", "o", "u", "l", "d">>, <<"c", "o", "u", "l", "d">>,
      <<"s", "h", "o", "u", "l", "d">>, <<"m", "a", "y">>, <<"m", "i", "g", "h", "t">>,
      <<"t", "h", "i", "s">>, <<"t", "h", "a", "t">>, <<"t", "h", "e", "s", "e">>,
      <<"t", "h", "o", "s", "e">>, <<"i">>, <<"y", "o", "u">>, <<"h", "e">>,
      <<"s", "h", "e">>, <<"i", "t">>, <<"w", "e">>, <<"t", "h", "e", "y">> }

stop_words(language) == IF language = "ur" THEN StopWordsUr ELSE StopWordsEn

sentence_patterns(language) ==
    IF language = "ur" THEN {UrFullStop, UrQuestion, "!"} ELSE {".", "!", "?"}

(***************************************************************************)
(* _regex_sentence_split                                                   *)
(***************************************************************************)
MinSentenceWords == 3

KeepFragmentAny(sentence) == sentence # <<>>

\* the filter of the fragments: "if sentence and len(sentence.split()) >= 3"
KeepFragment(sentence) ==
    sentence # <<>> /\ Len(Words(sentence)) >= MinSentenceWords

\* the terminators tested when the ending is put back
EndingChars(language) ==
    IF language = "ur" THEN {UrFullStop, UrQuestion, "!"} ELSE {".", "!", "?"}

\* a mutant: the ending is put back on the last sentence as well
FinalSentencesAll(text, language, processed_sentences) ==
    LET ending_char == IF language = "ur" THEN UrFullStop ELSE "."
        WithEnding(sentence) ==
            LET next_pos == Find(text, sentence) + Len(sentence)
            IN  IF next_pos < Len(text) /\ text[next_pos + 1] \in EndingChars(language)
                THEN Append(sentence, text[next_pos + 1])
                ELSE Append(sentence, ending_char)
    IN  [i \in 1..Len(processed_sentences) |-> WithEnding(processed_sentences[i])]

\* a mutant: every ending put back is the default one
FinalSentencesDefault(text, language, processed_sentences) ==
    LET ending_char == IF language = "ur" THEN UrFullStop ELSE "."
        n == Len(processed_sentences)
    IN  IF n = 0 THEN <<>>
        ELSE [i \in 1..(n - 1) |-> Append(processed_sentences[i], ending_char)]
             \o <<processed_sentences[n]>>

\* "Add back sentence endings (except for the last one)"
FinalSentences(text, language, processed_sentences) ==
    LET ending_char == IF language = "ur" THEN UrFullStop ELSE "."
        WithEnding(sentence) ==
            LET next_pos == Find(text, sentence) + Len(sentence)
            IN  IF next_pos < Len(text) /\ text[next_pos + 1] \in EndingChars(language)
                THEN Append(sentence, text[next_pos + 1])
                ELSE Append(sentence, ending_char)
        n == Len(processed_sentences)
    IN  IF n = 0 THEN <<>>
        ELSE [i \in 1..(n - 1) |-> WithEnding(processed_sentences[i])]
             \o <<processed_sentences[n]>>

regex_sentence_split(text, language) ==
    LET pattern   == sentence_patterns(language)
        sentences == SplitOn(pattern, text)
        stripped  == [k \in 1..Len(sentences) |-> Strip(sentences[k])]
        processed_sentences == SelectSeq(stripped, KeepFragment)
    IN  FinalSentences(text, language, processed_sentences)

(***************************************************************************)
(* The texts the segmenter is run on: up to MaxPieces pieces, each a       *)
(* fragment followed by one character or by nothing, and the text of the   *)
(* specification's example.                                                *)
(***************************************************************************)
MaxPieces == 2

SegFragments ==
    { <<>>, <<" ">>, <<"a">>, <<"a", " ", "b">>,
      <<"a", " ", "b", " ", "c">>,
      <<" ", "a", " ", " ", "b", "\t", "c", " ">>,
      <<"a", " ", "b", " ", "c", " ", "d">> }

SegEnders == { <<>>, <<".">>, <<"?">>, <<"!">>, <<UrFullStop>>, <<UrQuestion>>, <<".", ".">> }

SegPieces == { f \o e : f \in SegFragments, e \in SegEnders }

RECURSIVE PieceTexts(_)
PieceTexts(n) ==
    IF n = 0 THEN { <<>> }
    ELSE LET shorter == PieceTexts(n - 1)
         IN  shorter \cup { t \o p : t \in shorter, p \in SegPieces }

HelloText ==
    << "H","e","l","l","o"," ","w","o","r","l","d","."," ",
       "T","h","i","s"," ","i","s"," ","f","i","n","e","."," ",
       "O","k","." >>

SegTexts == PieceTexts(MaxPieces) \cup { HelloText }

SegIdle ==
    /\ segText = <<>>
    /\ segLang = "en"
    /\ segOut = <<>>
    /\ segPc = "idle"

ChIdle ==
    /\ chText = <<>>
    /\ chLang = "en"
    /\ chMax = NoArg
    /\ chOut = <<>>
    /\ chPc = "idle"

KpIdle ==
    /\ kpText = <<>>
    /\ kpLang = "en"
    /\ kpOut = <<>>
    /\ kpPc = "idle"

\* the record of a call of summarize_text:
\*   text, language   the arguments
\*   before           self.summarizer when it was called
\*   outcome          "returned" or "raised" ("none": no call yet)
\*   ret              the string returned
\*   summarizer       self.summarizer afterwards
\*   loads            the models pipeline() was asked to load, in order
\*   requests         the requests made to the summarizer, in order
\*   summaries        the list summaries when the loop ended
\*   fallbacks        the chunks whose request raised
\*   degraded         "no", "chunk" (the inner handler ran) or "text" (the outer one)
NoCall ==
    [text |-> <<>>, language |-> "en", before |-> None, outcome |-> "none",
     ret |-> <<>>, summarizer |-> None, loads |-> <<>>, requests |-> <<>>,
     summaries |-> <<>>, fallbacks |-> {}, degraded |-> "no"]

\* AudioProcessor.__init__ leaves self.summarizer None; no call yet
SumIdle ==
    /\ summarizer = None
    /\ sumCall = NoCall
    /\ nSum = 0

EmptyDict == <<>>
NoRun == [file_name |-> "", language |-> "en", transcription |-> <<>>,
          sentences |-> <<>>, key_phrases |-> <<>>, summary |-> <<>>]
NoBatch == [state |-> "none", language |-> "en", index |-> 0, results |-> EmptyDict]

\* AudioProcessor.__init__, and no call of process_pipeline or process_batch
OrchIdle ==
    /\ whisper_model = None
    /\ loadLog = <<>>
    /\ dirItems = <<>>
    /\ audioFiles = {}
    /\ files = EmptyDict
    /\ pc = "idle"
    /\ pipe = NoRun
    /\ results = EmptyDict
    /\ stagesRun = <<>>
    /\ failedStage = None
    /\ batch = NoBatch
    /\ started = <<>>
    /\ failedItems = {}
    /\ faults = 0

SegInit ==
    /\ segText \in SegTexts
    /\ segLang \in Languages
    /\ segOut = <<>>
    /\ segPc = "call"
    /\ ChIdle
    /\ KpIdle
    /\ SumIdle
    /\ OrchIdle

Segment ==
    /\ segPc = "call"
    /\ segOut' = regex_sentence_split(segText, segLang)
    /\ segPc' = "done"
    /\ UNCHANGED <<segText, segLang, chVars, kpVars, sumVars, orchVars>>

SegNext == Segment

SpecSeg == SegInit /\ [][SegNext]_vars

(***************************************************************************)
(* Claims on the segmenter (SpecSeg)                                       *)
(***************************************************************************)
SegDone == segPc = "done"

\* C3: every sentence the segmenter returns has at least 3 whitespace-delimited
\* tokens and holds a terminal punctuation character of its language nowhere but,
\* possibly, as its final character.
C3_SentencesWellFormed ==
    SegDone =>
        \A k \in 1..Len(segOut) :
            /\ Len(Words(segOut[k])) >= 3
            /\ \A i \in 1..(Len(segOut[k]) - 1) :
                   segOut[k][i] \notin sentence_patterns(segLang)

\* two sentences returned, the first with its ending put back, from a text that
\* also held a fragment that was dropped
C3_Witness ==
    /\ SegDone
    /\ Len(segOut) = 2
    /\ segOut[1][Len(segOut[1])] \in sentence_patterns(segLang)
    /\ Len(SplitOn(sentence_patterns(segLang), segText)) > 2

\* the fragments of the text that are retained, in the order of the text
Retained(text, language) ==
    LET fragments == SplitOn(sentence_patterns(language), text)
    IN  SelectSeq([k \in 1..Len(fragments) |-> Strip(fragments[k])], KeepFragment)

\* the positions of the text at which the fragment occurs
Occurrences(text, fragment) ==
    { p \in 1..(Len(text) - Len(fragment) + 1) :
         SubSeq(text, p, p + Len(fragment) - 1) = fragment }

\* the terminator for a fragment: the character after its first occurrence if
\* that is a terminator of the language, the default full stop otherwise
TerminatorFor(text, language, fragment) ==
    LET after == Min(Occurrences(text, fragment)) + Len(fragment)
    IN  IF after <= Len(text) /\ text[after] \in sentence_patterns(language)
        THEN text[after]
        ELSE IF language = "ur" THEN UrFullStop ELSE "."

\* C12: the segmenter returns one sentence per retained fragment, in the order
\* of the text; each but the last is the fragment followed by one terminator,
\* the character after the first occurrence of the fragment in the text when
\* that is a terminator of the language and the default full stop otherwise; the
\* last is the fragment unchanged; an empty text gives an empty sequence
C12_EndingsRestored ==
    SegDone =>
        LET retained == Retained(segText, segLang)
            n == Len(retained)
        IN  /\ Len(segOut) = n
            /\ \A i \in 1..(n - 1) :
                  segOut[i] = Append(retained[i],
                                     TerminatorFor(segText, segLang, retained[i]))
            /\ n > 0 => segOut[n] = retained[n]
            /\ segText = <<>> => segOut = <<>>

\* two sentences, the first with a terminator of the text other than the
\* default put back, the last with none though the text gave it one
C12_Witness ==
    /\ SegDone
    /\ Len(segOut) = 2
    /\ segOut[1][Len(segOut[1])] \in sentence_patterns(segLang) \ { ".", UrFullStop }
    /\ segText[Len(segText)] \in sentence_patterns(segLang)
    /\ segOut[2][Len(segOut[2])] \notin sentence_patterns(segLang)

HelloWorldDot == << "H","e","l","l","o"," ","w","o","r","l","d","." >>
ThisIsFine    == << "T","h","i","s"," ","i","s"," ","f","i","n","e" >>
ThisIsFineDot == ThisIsFine \o << "." >>

SegHello == SegDone /\ segText = HelloText /\ segLang = "en"

\* C4 as stated: "Hello world. This is fine. Ok." yields
\* ["Hello world.", "This is fine."].
C4_Original == SegHello => segOut = << HelloWorldDot, ThisIsFineDot >>

\* C4 amended: "Hello world. This is fine. Ok." yields exactly ["This is fine"]:
\* the two-token fragment "Hello world" and the fragment "Ok" are dropped, and the
\* one retained sentence, being the last, carries no full stop.
C4_HelloExample == SegHello => segOut = << ThisIsFine >>

C4_Witness == SegHello /\ Len(segOut) = 1

(***************************************************************************)
(* chunk_text                                                              *)
(***************************************************************************)
DefaultMaxWordsUr == 300
DefaultMaxWordsEn == 500

\* a mutant: the slice is one word short
ChunkSliceShort(words, i, max_words) ==
    SubSeq(words, i + 1, Min({i + max_words - 1, Len(words)}))

\* words[i:i + max_words]
ChunkSlice(words, i, max_words) ==
    SubSeq(words, i + 1, Min({i + max_words, Len(words)}))

\* the chunks in the order the generator yields them; max_words is NoArg (None, the
\* default) or <<n>> with n positive
chunk_text(text, language, max_words) ==
    LET mw == IF max_words = NoArg
              THEN (IF language = "ur" THEN DefaultMaxWordsUr ELSE DefaultMaxWordsEn)
              ELSE max_words[1]
        words == Words(text)
        \* range(0, len(words), max_words)
        count == (Len(words) + mw - 1) \div mw
        chunk(k) == Join(<<" ">>, ChunkSlice(words, (k - 1) * mw, mw))
        NonBlank(c) == Strip(c) # <<>>
    IN  SelectSeq([k \in 1..count |-> chunk(k)], NonBlank)

(***************************************************************************)
(* The texts the chunker is run on: every text of up to MaxChunkLen        *)
(* characters, and longer ones of n one-letter words that cross the        *)
(* default sizes.                                                          *)
(***************************************************************************)
MaxChunkLen == 6
MaxChunkWords == 3

ChunkAlphabet == {"a", "b", " ", "\t"}

RECURSIVE TextsUpTo(_, _)
TextsUpTo(alphabet, n) ==
    IF n = 0 THEN { <<>> }
    ELSE LET shorter == TextsUpTo(alphabet, n - 1)
         IN  shorter \cup { Append(t, c) : t \in shorter, c \in alphabet }

\* n words: "a b a b ..."
WordRun(n) == [i \in 1..(2 * n - 1) |->
                 IF i % 2 = 0 THEN " " ELSE IF i % 4 = 1 THEN "a" ELSE "b"]

LongTexts ==
    { WordRun(n) : n \in { DefaultMaxWordsUr, DefaultMaxWordsUr + 1,
                           DefaultMaxWordsEn, DefaultMaxWordsEn + 1,
                           2 * DefaultMaxWordsUr + 1 } }

ChunkInit ==
    /\ \/ /\ chText \in TextsUpTo(ChunkAlphabet, MaxChunkLen)
          /\ chMax \in {NoArg} \cup { <<n>> : n \in 1..MaxChunkWords }
       \/ /\ chText \in LongTexts
          /\ chMax = NoArg
    /\ chLang \in Languages
    /\ chOut = <<>>
    /\ chPc = "call"
    /\ SegIdle
    /\ KpIdle
    /\ SumIdle
    /\ OrchIdle

Chunk ==
    /\ chPc = "call"
    /\ chOut' = chunk_text(chText, chLang, chMax)
    /\ chPc' = "done"
    /\ UNCHANGED <<chText, chLang, chMax, segVars, kpVars, sumVars, orchVars>>

ChunkNext == Chunk

SpecChunk == ChunkInit /\ [][ChunkNext]_vars

(***************************************************************************)
(* Claims on the chunker (SpecChunk)                                       *)
(***************************************************************************)
\* the text with each run of whitespace made one space and the ends trimmed
NormalizeWs(s) ==
    LET n == Len(s)
        black == Indices([i \in 1..n |-> s[i] \notin Whitespace], 1, n)
        lastBlack == IF black = <<>> THEN 0 ELSE black[Len(black)]
        keep == [i \in 1..n |->
                   \/ s[i] \notin Whitespace
                   \/ /\ i > 1
                      /\ s[i - 1] \notin Whitespace
                      /\ i < lastBlack]
        at == Indices(keep, 1, n)
    IN  [k \in 1..Len(at) |-> IF s[at[k]] \in Whitespace THEN " " ELSE s[at[k]]]

ChMaxWords ==
    IF chMax = NoArg
    THEN (IF chLang = "ur" THEN DefaultMaxWordsUr ELSE DefaultMaxWordsEn)
    ELSE chMax[1]

\* C9: chunk_text yields the whitespace tokens of the text in order as consecutive
\* non-empty groups of exactly max_words tokens (the last group may be shorter);
\* the chunks joined with single spaces are the whitespace-normalized text; a text
\* of no token yields no chunk.
C9_ChunksPartitionWords ==
    chPc = "done" =>
        LET words == Words(chText)
            n == Len(chOut)
        IN  /\ Join(<<" ">>, chOut) = NormalizeWs(chText)
            /\ \A k \in 1..n :
                   /\ chOut[k] # <<>>
                   /\ Words(chOut[k]) =
                        SubSeq(words, (k - 1) * ChMaxWords + 1,
                               IF k < n THEN k * ChMaxWords ELSE Len(words))
                   /\ k < n => Len(Words(chOut[k])) = ChMaxWords
                   /\ Len(Words(chOut[k])) \in 1..ChMaxWords
            /\ (words = <<>>) => (chOut = <<>>)
            /\ (words # <<>>) => (chOut # <<>>)

\* two chunks, the last one shorter, from a text whose whitespace is not normal
C9_Witness ==
    /\ chPc = "done"
    /\ Len(chOut) = 2
    /\ Len(Words(chOut[2])) < ChMaxWords
    /\ NormalizeWs(chText) # chText

\* more words than the default size: a second chunk under the default
C9_WitnessDefault ==
    /\ chPc = "done"
    /\ chMax = NoArg
    /\ Len(chOut) = 2

(***************************************************************************)
(* extract_key_phrases                                                     *)
(***************************************************************************)
MinRunLen == 2
MinKeyLen == 2
TopN == 10

\* re.findall(r'[\u0600-\u06FF]{2,}', text)
FindUrduWords(text) ==
    LET IsLong(run) == Len(run) >= MinRunLen
    IN  SelectSeq(RunsOf(ArabicBlock, text), IsLong)

\* re.findall(r'\b[a-zA-Z]{2,}\b', text.lower()): \b holds only at the two ends of
\* a run of \w characters, so a match is such a run made of letters alone
FindEnglishWords(text) ==
    LET lowered == [i \in 1..Len(text) |-> LowerChar(text[i])]
        IsWord(run) ==
            /\ \A i \in 1..Len(run) : run[i] \in AsciiLower \cup AsciiUpper
            /\ Len(run) >= MinRunLen
    IN  SelectSeq(RunsOf(WordChars, lowered), IsWord)

\* the dict word_freq: its items, <<word, count>>, in the order of insertion
WordFreq(words, language) ==
    LET Counted(word) == word \notin stop_words(language) /\ Len(word) > MinKeyLen
        counted == SelectSeq(words, Counted)
        n == Len(counted)
        isNew == [i \in 1..n |-> \A j \in 1..(i - 1) : counted[j] # counted[i]]
        firsts == Indices(isNew, 1, n)
    IN  [k \in 1..Len(firsts) |->
            << counted[firsts[k]],
               Cardinality({ i \in 1..n : counted[i] = counted[firsts[k]] }) >>]

\* a mutant: reverse=True left out
SortedByCountAscending(items) ==
    LET n == Len(items)
        place(i) == 1 + Cardinality({ j \in 1..n : items[j][2] < items[i][2] })
                      + Cardinality({ j \in 1..(i - 1) : items[j][2] = items[i][2] })
    IN  [p \in 1..n |-> items[CHOOSE i \in 1..n : place(i) = p]]

\* sorted(items, key=lambda x: x[1], reverse=True): a stable sort, so items of one
\* count keep their order
SortedByCount(items) ==
    LET n == Len(items)
        place(i) == 1 + Cardinality({ j \in 1..n : items[j][2] > items[i][2] })
                      + Cardinality({ j \in 1..(i - 1) : items[j][2] = items[i][2] })
    IN  [p \in 1..n |-> items[CHOOSE i \in 1..n : place(i) = p]]

extract_key_phrases(text, language) ==
    LET words == IF language = "ur" THEN FindUrduWords(text) ELSE FindEnglishWords(text)
        word_freq == WordFreq(words, language)
        sorted == SortedByCount(word_freq)
        top_words == SubSeq(sorted, 1, Min({TopN, Len(sorted)}))
    IN  [k \in 1..Len(top_words) |-> top_words[k][1]]

(***************************************************************************)
(* The texts the extractor is run on: up to MaxKeyWords items of a         *)
(* vocabulary, joined by spaces, alone or after twelve distinct words of   *)
(* the language.                                                           *)
(***************************************************************************)
MaxKeyWords == 2

KeyBaseEn ==
    << <<"k","a","a">>, <<"k","a","b">>, <<"k","a","c">>, <<"k","b","a">>,
       <<"k","b","b">>, <<"k","b","c">>, <<"k","c","a">>, <<"k","c","b">>,
       <<"k","c","c">>, <<"k","d","a">>, <<"k","d","b">>, <<"k","d","c">> >>

KeyBaseUr ==
    << <<UrAlef, UrBeh, UrAlef>>, <<UrAlef, UrBeh, UrBeh>>, <<UrAlef, UrBeh, UrPeh>>,
       <<UrBeh, UrAlef, UrAlef>>, <<UrBeh, UrAlef, UrBeh>>, <<UrBeh, UrAlef, UrPeh>>,
       <<UrPeh, UrAlef, UrAlef>>, <<UrPeh, UrAlef, UrBeh>>, <<UrPeh, UrAlef, UrPeh>>,
       <<UrPeh, UrBeh, UrAlef>>, <<UrPeh, UrBeh, UrBeh>>, <<UrPeh, UrBeh, UrPeh>> >>

KeyVocabulary ==
    { <<"t","h","e">>, <<"o","n">>, <<"C","a","t">>, <<"c","a","t",".">>,
      <<"d","o","g","1">>, KeyBaseEn[11], KeyBaseEn[12],
      <<"U+0627", "U+0648", "U+0631">>, <<"U+06A9", "U+0627">>,
      <<UrBeh, UrPeh, UrFullStop>>, <<UrBeh, UrPeh, "_", UrBeh, UrPeh, UrBeh>>,
      KeyBaseUr[11], KeyBaseUr[12] }

RECURSIVE SeqsUpTo(_, _)
SeqsUpTo(S, n) ==
    IF n = 0 THEN { <<>> }
    ELSE LET shorter == SeqsUpTo(S, n - 1)
         IN  shorter \cup { Append(t, c) : t \in shorter, c \in S }

KeyTexts ==
    { Join(<<" ">>, base \o tail) :
        base \in { <<>>, KeyBaseEn, KeyBaseUr },
        tail \in SeqsUpTo(KeyVocabulary, MaxKeyWords) }

KeyInit ==
    /\ kpText \in KeyTexts
    /\ kpLang \in Languages
    /\ kpOut = <<>>
    /\ kpPc = "call"
    /\ SegIdle
    /\ ChIdle
    /\ SumIdle
    /\ OrchIdle

ExtractKeyPhrases ==
    /\ kpPc = "call"
    /\ kpOut' = extract_key_phrases(kpText, kpLang)
    /\ kpPc' = "done"
    /\ UNCHANGED <<kpText, kpLang, segVars, chVars, sumVars, orchVars>>

KeyNext == ExtractKeyPhrases

SpecKey == KeyInit /\ [][KeyNext]_vars

(***************************************************************************)
(* Claims on the extractor (SpecKey)                                       *)
(***************************************************************************)
\* the tokens of the text that are counted: no stop word, longer than 2
KpSurvivors ==
    LET words == IF kpLang = "ur" THEN FindUrduWords(kpText) ELSE FindEnglishWords(kpText)
        Counted(word) == word \notin stop_words(kpLang) /\ Len(word) > 2
    IN  SelectSeq(words, Counted)

\* C10: extract_key_phrases returns at most 10 distinct tokens, none a stop word of
\* the language or of length 2 or less, in descending order of their frequency among
\* the surviving tokens, tokens of one frequency in the order of their first
\* occurrence; no surviving token left out is more frequent than a returned one.
C10_KeyPhrasesRanked ==
    kpPc = "done" =>
        LET surv == KpSurvivors
            all  == { surv[i] : i \in 1..Len(surv) }
            freq == [w \in all |-> Cardinality({ i \in 1..Len(surv) : surv[i] = w })]
            first == [w \in all |-> Min({ i \in 1..Len(surv) : surv[i] = w })]
            returned == { kpOut[k] : k \in 1..Len(kpOut) }
        IN  /\ Len(kpOut) <= 10
            /\ \A i, j \in 1..Len(kpOut) : i # j => kpOut[i] # kpOut[j]
            /\ \A k \in 1..Len(kpOut) :
                   /\ kpOut[k] \notin stop_words(kpLang)
                   /\ Len(kpOut[k]) > 2
                   /\ kpOut[k] \in all
            /\ \A i, j \in 1..Len(kpOut) :
                   i < j => \/ freq[kpOut[i]] > freq[kpOut[j]]
                            \/ /\ freq[kpOut[i]] = freq[kpOut[j]]
                               /\ first[kpOut[i]] < first[kpOut[j]]
            /\ \A w \in all \ returned :
                   \A k \in 1..Len(kpOut) : freq[w] <= freq[kpOut[k]]

\* more than 10 surviving tokens, so some are left out; the most frequent token
\* occurs first after the one ranked second; a stop word or short token in the text
C10_Witness ==
    /\ kpPc = "done"
    /\ Len(kpOut) = 10
    /\ LET surv == KpSurvivors
           all  == { surv[i] : i \in 1..Len(surv) }
           freq == [w \in all |-> Cardinality({ i \in 1..Len(surv) : surv[i] = w })]
           first == [w \in all |-> Min({ i \in 1..Len(surv) : surv[i] = w })]
       IN  /\ Cardinality(all) > 10
           /\ freq[kpOut[1]] > freq[kpOut[2]]
           /\ first[kpOut[1]] > first[kpOut[2]]
           /\ Len(surv) < Len(Words(kpText))

(***************************************************************************)
(* _load_summarizer                                                        *)
(***************************************************************************)
Mt5  == "google/mt5-small"          \* the multilingual model
Bart == "facebook/bart-large-cnn"   \* the English model

\* a mutant: the model is loaded whether or not the handle is set
load_summarizer_anew(handle, language, loadEnv) ==
    LET model_name == IF language = "en" THEN Bart ELSE Mt5
    IN  IF loadEnv[1]
        THEN [summarizer |-> model_name, raised |-> FALSE, loads |-> <<model_name>>]
        ELSE IF loadEnv[2]
        THEN [summarizer |-> Bart, raised |-> FALSE, loads |-> <<model_name, Bart>>]
        ELSE [summarizer |-> None, raised |-> TRUE, loads |-> <<model_name, Bart>>]

\* What one call of _load_summarizer does.  loadEnv = <<p, f>>: whether the load of
\* the preferred model and the load in the except branch can succeed.
\* The result: the handle afterwards, whether the call raised, the loads tried.
load_summarizer(handle, language, loadEnv) ==
    LET model_name == IF language = "en" THEN Bart ELSE Mt5
    IN  IF handle # None
        THEN [summarizer |-> handle, raised |-> FALSE, loads |-> <<>>]
        ELSE IF loadEnv[1]
        THEN [summarizer |-> model_name, raised |-> FALSE, loads |-> <<model_name>>]
        ELSE IF loadEnv[2]
        THEN [summarizer |-> Bart, raised |-> FALSE, loads |-> <<model_name, Bart>>]
        ELSE [summarizer |-> None, raised |-> TRUE, loads |-> <<model_name, Bart>>]

(***************************************************************************)
(* summarize_text                                                          *)
(***************************************************************************)
MinSummaryWords == 20
MaxLengthUr == 8
MaxLengthEn == 150
MinLengthUr == 3
MinLengthEn == 50
FallbackSplit == 3
FallbackClauses == 2

EmptySentinel ==
    << "U+26A0", "U+FE0F", " ", "E", "m", "p", "t", "y", " ", "i", "n", "p", "u", "t",
       ".", " ", "S", "k", "i", "p", "p", "e", "d", "." >>

ShortSentinel ==
    << "U+2139", "U+FE0F", " ", "T", "e", "x", "t", " ", "t", "o", "o", " ", "s", "h",
       "o", "r", "t", " ", "t", "o", " ", "s", "u", "m", "m", "a", "r", "i", "z", "e",
       ".", " ", "C", "o", "n", "s", "i", "d", "e", "r", " ", "k", "e", "e", "p", "i",
       "n", "g", " ", "a", "s", "-", "i", "s", "." >>

FallbackMarker == << "U+1F4DD", " " >>
Mt5Prefix == << "s", "u", "m", "m", "a", "r", "i", "z", "e", ":", " " >>
ParagraphBreak == << "\n", "\n" >>

\* What a request to the summarizer can do: return a summary string ("ok"), raise
\* ("raise"), or return a summary_text that is no string ("nostr"), on which
\* "\n\n".join(summaries) raises TypeError after the loop.
ChunkOutcomes == {"ok", "raise", "nostr"}

\* the summary a model returns for its k-th request: a string of the model's own
ModelSummary(model, k) ==
    (IF model = Mt5 THEN <<"m", "t", "5">> ELSE <<"b", "a", "r", "t">>)
        \o << " ", "s", "u", "m", "m", "a", "r", "y", " ", "#" >>
        \o [i \in 1..k |-> "i"]
NoString == << "U+FFFF" >>

\* s[:n]
Take(s, n) == SubSeq(s, 1, Min({n, Len(s)}))

\* "sentences = s.split(t)[:3]; t.join(sentences[:2]) + t", t the full stop of the language
FirstClauses(s, language) ==
    LET stop == IF language = "ur" THEN UrFullStop ELSE "."
        sentences == Take(SplitOn({stop}, s), FallbackSplit)
    IN  Join(<<stop>>, Take(sentences, FallbackClauses)) \o <<stop>>

\* a mutant: the fallback of a chunk keeps all the clauses split off
ChunkFallbackThree(chunk, language) ==
    LET stop == IF language = "ur" THEN UrFullStop ELSE "."
    IN  FallbackMarker \o Join(<<stop>>, Take(SplitOn({stop}, chunk), FallbackSplit))
                       \o <<stop>>

\* the fallback of the inner handler, for one chunk
ChunkFallback(chunk, language) == FallbackMarker \o FirstClauses(chunk, language)

\* the fallback of the outer handler, for the whole text
TextFallback(text, language) == FirstClauses(text, language)

\* a mutant: texts of MinSummaryWords - 1 words are summarized
IsTooShortByOne(text) == Len(Words(text)) < MinSummaryWords - 1

\* "word_count = len(text.split()); if word_count < 20"
IsTooShort(text) == Len(Words(text)) < MinSummaryWords

\* 'mt5' in str(summarizer.model.config).lower()
IsMt5(model) == model = Mt5

\* What one call of summarize_text(text, language) does on an instance whose
\* self.summarizer is handle, the loads behaving as loadEnv says and the k-th
\* request as outcomes[k] says.
summarize_text(text, language, handle, loadEnv, outcomes) ==
    LET call == [NoCall EXCEPT !.text = text, !.language = language,
                               !.before = handle, !.summarizer = handle,
                               !.outcome = "returned"]
        max_length == IF language = "ur" THEN MaxLengthUr ELSE MaxLengthEn
        min_length == IF language = "ur" THEN MinLengthUr ELSE MinLengthEn
        loaded == load_summarizer(handle, language, loadEnv)
        model  == loaded.summarizer
        chunks == chunk_text(text, language, NoArg)
        n      == Len(chunks)
        request(i) ==
            [model |-> model,
             input |-> IF IsMt5(model) THEN Mt5Prefix \o chunks[i] ELSE chunks[i],
             max_length |-> max_length, min_length |-> min_length]
        summaries ==
            [i \in 1..n |->
                CASE outcomes[i] = "ok"    -> ModelSummary(model, i)
                  [] outcomes[i] = "nostr" -> NoString
                  [] outcomes[i] = "raise" -> ChunkFallback(chunks[i], language)]
        fallbacks == { i \in 1..n : outcomes[i] = "raise" }
        joinRaises == \E i \in 1..n : outcomes[i] = "nostr"
    IN  IF Strip(text) = <<>> THEN [call EXCEPT !.ret = EmptySentinel]
        ELSE IF IsTooShort(text) THEN [call EXCEPT !.ret = ShortSentinel]
        ELSE IF loaded.raised
        THEN [call EXCEPT !.outcome = "raised", !.loads = loaded.loads]
        ELSE [call EXCEPT
                !.ret = IF joinRaises THEN TextFallback(text, language)
                        ELSE Join(ParagraphBreak, summaries),
                !.summarizer = model,
                !.loads = loaded.loads,
                !.requests = [i \in 1..n |-> request(i)],
                !.summaries = summaries,
                !.fallbacks = fallbacks,
                !.degraded = IF joinRaises THEN "text"
                             ELSE IF fallbacks # {} THEN "chunk" ELSE "no"]

\* whether a call gets as far as _load_summarizer
Summarizes(text) == Strip(text) # <<>> /\ ~IsTooShort(text)

(***************************************************************************)
(* The texts summarize_text is called on: n words, every third one ending  *)
(* a clause in the given style, for n around the limits of the code.       *)
(***************************************************************************)
MaxSumCalls == 2

SampleText(n, style) ==
    LET word(i) ==
            IF i % 3 # 0 THEN (IF i % 3 = 1 THEN <<"a">> ELSE <<"b">>)
            ELSE CASE style = "ur"    -> <<"c", UrFullStop>>
                   [] style = "en"    -> <<"c", ".">>
                   [] style = "plain" -> <<"c">>
    IN  Join(<<" ">>, [i \in 1..n |-> word(i)])

SumTexts ==
    { <<>>, <<" ", "\t", "\n">>,
      SampleText(1, "en"),
      SampleText(MinSummaryWords - 1, "en"),
      SampleText(MinSummaryWords, "en"),
      SampleText(MinSummaryWords, "ur"),
      SampleText(MinSummaryWords, "plain"),
      SampleText(DefaultMaxWordsUr + 1, "ur") }

\* the ways the two loads can go, where a load is tried at all
LoadEnvs(text, handle) ==
    IF Summarizes(text) /\ handle = None
    THEN BOOLEAN \X BOOLEAN
    ELSE { <<TRUE, TRUE>> }

\* the ways the requests can go: one outcome per chunk, where any is made
RequestEnvs(text, language, handle, loadEnv) ==
    IF Summarizes(text) /\ ~load_summarizer(handle, language, loadEnv).raised
    THEN [1..Len(chunk_text(text, language, NoArg)) -> ChunkOutcomes]
    ELSE { <<>> }

SumInit ==
    /\ SumIdle
    /\ OrchIdle
    /\ SegIdle
    /\ ChIdle
    /\ KpIdle

\* one call of summarize_text on the instance
SummarizeText ==
    /\ nSum < MaxSumCalls
    /\ \E text \in SumTexts, language \in Languages :
         \E loadEnv \in LoadEnvs(text, summarizer) :
            \E outcomes \in RequestEnvs(text, language, summarizer, loadEnv) :
                sumCall' = summarize_text(text, language, summarizer, loadEnv, outcomes)
    /\ summarizer' = sumCall'.summarizer
    /\ nSum' = nSum + 1
    /\ UNCHANGED <<segVars, chVars, kpVars, orchVars>>

SumNext == SummarizeText

SpecSum == SumInit /\ [][SumNext]_vars

(***************************************************************************)
(* normalize_urdu, _clean_text                                             *)
(***************************************************************************)
\* re.sub(r'\s+', ' ', t), for a text t without whitespace at its ends
CollapseRuns(t) ==
    LET keep == [i \in 1..Len(t) |-> t[i] \notin Whitespace \/ t[i - 1] \notin Whitespace]
        at == Indices(keep, 1, Len(t))
    IN  [k \in 1..Len(at) |-> IF t[at[k]] \in Whitespace THEN " " ELSE t[at[k]]]

\* re.sub(r'\s+', ' ', text.strip())
CollapseSpaces(text) == CollapseRuns(Strip(text))

\* text.replace('\u06A9', '\u0643').replace('\u06CC', '\u064A')
FoldLetters(text) ==
    [i \in 1..Len(text) |->
        CASE text[i] = "U+06A9" -> "U+0643"
          [] text[i] = "U+06CC" -> "U+064A"
          [] OTHER -> text[i]]

\* unicodedata.normalize("NFKC", text) changes no character of the texts modelled
normalize_urdu(text) == CollapseSpaces(FoldLetters(text))

Concat(parts) == JoinRange(<<>>, parts, 1, Len(parts))

\* re.sub(r'\s+([marks])', r'\1', t), for a text t whose runs of whitespace are
\* one space each
NoSpaceBefore(marks, t) ==
    Concat([i \in 1..Len(t) |->
               IF t[i] = " " /\ i < Len(t) /\ t[i + 1] \in marks THEN <<>> ELSE <<t[i]>>])

\* re.sub(r'([marks])\s*', r'\1 ', t), for such a text
OneSpaceAfter(marks, t) ==
    Concat([i \in 1..Len(t) |->
               IF t[i] \in marks THEN <<t[i], " ">>
               ELSE IF t[i] = " " /\ i > 1 /\ t[i - 1] \in marks THEN <<>>
               ELSE <<t[i]>>])

\* the characters the last substitution of _clean_text keeps
AllowedChars(language) ==
    IF language = "ur"
    THEN ArabicBlock \cup Whitespace \cup WordChars
            \cup { UrFullStop, UrQuestion, "!", UrComma, "U+066B", "U+066C" }
    ELSE WordChars \cup Whitespace
            \cup { ".", "!", "?", ",", ":", ";", "'", "\"", "(", ")", "-" }

KeepAllowed(language, t) ==
    LET Allowed(c) == c \in AllowedChars(language)
    IN  SelectSeq(t, Allowed)

\* the punctuation the two substitutions before it are about
CleanPunctuation(language) ==
    IF language = "ur" THEN { UrFullStop, UrQuestion, "!" } ELSE { ".", "!", "?" }

clean_text(text, language) ==
    Strip(KeepAllowed(language,
            OneSpaceAfter(CleanPunctuation(language),
                NoSpaceBefore(CleanPunctuation(language), CollapseSpaces(text)))))

(***************************************************************************)
(* The environment of a run: the audio files and what the models and the   *)
(* disk do.  MaxItems bounds the files of audio_dir, MaxFaults the         *)
(* failures (of a load, of a request to a model, of an open()) in a run.   *)
(***************************************************************************)
MaxItems == 3
MaxFaults == 1

ItemNames == << "item1", "item2", "item3", "item4", "item5", "item6" >>
Whisper == "whisper"

HelloRaw ==
    << " ","H","e","l","l","o"," "," ","w","o","r","l","d"," ","."," ",
       "T","h","i","s"," ","i","s","\t","f","i","n","e",".",
       "O","k"," ","."," ","#" >>

UrduRaw ==
    LET word(i) ==
            CASE i % 3 = 1 -> <<UrAlef, UrBeh, "U+06CC">>
              [] i % 3 = 2 -> <<"U+06A9", "U+06CC">>
              [] OTHER     -> <<UrPeh, UrAlef, UrBeh, " ", UrFullStop>>
    IN  Join(<<" ", " ">>, [i \in 1..(MinSummaryWords + 4) |-> word(i)])

RawSamples == << HelloRaw, SampleText(MinSummaryWords + 4, "en"), UrduRaw >>

\* what model.transcribe returns for the audio of an item: result["text"], and
\* whether result has "segments"
AudioContent(name) ==
    LET k == CHOOSE i \in 1..Len(ItemNames) : ItemNames[i] = name
    IN  [text |-> RawSamples[((k - 1) % Len(RawSamples)) + 1],
         segments |-> k % 2 = 1]

TranscriptPath(name) == <<"transcripts/", name, "_transcription.txt">>
DetailedPath(name)   == <<"transcripts/", name, "_transcription_detailed.txt">>
SentencesPath(language) == <<"analysis/sentences_", language, ".txt">>
SummaryPath(name, language) == <<"analysis/", name, "_", language, "_summary.txt">>

\* a mutant: the write leaves no other file on the disk
WrittenAlone(path, content) == path :> content

\* open(path, "w") and the writes that follow
Written(path, content) == (path :> content) @@ files

(***************************************************************************)
(* process_pipeline                                                        *)
(***************************************************************************)
StageOrder == << "transcribe", "segment", "key_phrases", "summarize", "write_summary" >>

ResultKeys ==
    { "transcription", "language", "word_count", "sentences", "sentence_count",
      "key_phrases", "summary", "summary_file", "status" }

\* a mutant: the handler records the message and not the status
FailNoStatus(stage, message) ==
    /\ pc' = "FAILED"
    /\ results' = ("error" :> <<"Pipeline failed: ", message>>) @@ results
    /\ failedStage' = stage
    /\ failedItems' = failedItems \cup { pipe.file_name }

\* "except Exception as e": the stage raised
Fail(stage, message) ==
    /\ pc' = "FAILED"
    /\ results' = ("status" :> "error") @@ ("error" :> <<"Pipeline failed: ", message>>)
                     @@ results
    /\ failedStage' = stage
    /\ failedItems' = failedItems \cup { pipe.file_name }

\* the call: results = {}
Enter(file_name, language) ==
    /\ pc' = "START"
    /\ pipe' = [NoRun EXCEPT !.file_name = file_name, !.language = language]
    /\ results' = EmptyDict
    /\ stagesRun' = <<>>
    /\ failedStage' = None
    /\ started' = Append(started, file_name)

\* process_pipeline(file_name, language) called on its own
CallPipeline ==
    /\ pc = "idle" /\ batch.state = "none" /\ started = <<>>
    /\ \E k \in 1..MaxItems, language \in Languages : Enter(ItemNames[k], language)
    /\ UNCHANGED <<instVars, batch, failedItems, faults>>
    /\ UNCHANGED <<segVars, chVars, kpVars, sumVars>>

\* what a failure of the environment may still be chosen from
MayFail(outcomes) == IF faults < MaxFaults THEN outcomes ELSE {}

\* the two files transcribe_audio writes
Transcript(language, transcription) ==
    [language |-> language, transcription |-> transcription]

Detailed(language, name) == [language |-> language, segments |-> name]

\* the text transcribe_audio returns for what the model heard
Transcription(raw, language) ==
    clean_text(IF language = "ur" THEN normalize_urdu(raw) ELSE raw, language)

\* the ways transcribe_audio can go
TranscribeOutcomes(name) ==
    IF name \notin audioFiles THEN { "missing" }
    ELSE { "ok" }
         \cup MayFail({ "transcribe_fail", "write_fail" })
         \cup (IF whisper_model = None THEN MayFail({ "load_fail" }) ELSE {})
         \cup (IF AudioContent(name).segments THEN MayFail({ "detailed_fail" }) ELSE {})

\* Step 1: transcribe_audio
StageTranscribe ==
    /\ pc = "START"
    /\ stagesRun' = Append(stagesRun, "transcribe")
    /\ \E outcome \in TranscribeOutcomes(pipe.file_name) :
          /\ whisper_model' = IF outcome \in { "missing", "load_fail" }
                               THEN whisper_model ELSE Whisper
          /\ loadLog' = IF outcome = "missing" \/ whisper_model # None
                        THEN loadLog
                        ELSE Append(loadLog, [handle |-> "whisper_model", model |-> Whisper,
                                              ok |-> outcome # "load_fail"])
          /\ faults' = IF outcome \in { "ok", "missing" } THEN faults ELSE faults + 1
          /\ pipe' = IF outcome = "ok"
                     THEN [pipe EXCEPT !.transcription =
                             Transcription(AudioContent(pipe.file_name).text, pipe.language)]
                     ELSE pipe
          /\ files' =
                CASE outcome = "ok" /\ AudioContent(pipe.file_name).segments ->
                        (DetailedPath(pipe.file_name) :> Detailed(pipe.language, pipe.file_name))
                            @@ Written(TranscriptPath(pipe.file_name),
                                       Transcript(pipe.language, pipe'.transcription))
                  [] outcome = "ok" ->
                        Written(TranscriptPath(pipe.file_name),
                                Transcript(pipe.language, pipe'.transcription))
                  [] outcome = "detailed_fail" ->
                        Written(TranscriptPath(pipe.file_name),
                                Transcript(pipe.language,
                                    Transcription(AudioContent(pipe.file_name).text,
                                                  pipe.language)))
                  [] OTHER -> files
          /\ IF outcome = "ok"
             THEN /\ pc' = "TRANSCRIBED"
                  /\ results' = ("transcription" :> pipe'.transcription)
                                   @@ ("language" :> pipe.language)
                                   @@ ("word_count" :> Len(Words(pipe'.transcription)))
                                   @@ results
                  /\ UNCHANGED <<failedStage, failedItems>>
             ELSE Fail("transcribe", outcome)
    /\ UNCHANGED <<dirItems, audioFiles, batch, started>>
    /\ UNCHANGED <<segVars, chVars, kpVars, sumVars>>

\* Step 2: process_sentences
StageSegment ==
    /\ pc = "TRANSCRIBED"
    /\ stagesRun' = Append(stagesRun, "segment")
    /\ LET language == pipe.language
           sentences == regex_sentence_split(pipe.transcription, language)
           content == [language |-> language, total |-> Len(sentences),
                       sentences |-> [i \in 1..Len(sentences) |-> Strip(sentences[i])]]
       IN  \E outcome \in { "ok" } \cup MayFail({ "write_fail" }) :
              IF outcome = "ok"
              THEN /\ files' = Written(SentencesPath(language), content)
                   /\ pc' = "SEGMENTED"
                   /\ pipe' = [pipe EXCEPT !.sentences = sentences]
                   /\ results' = ("sentences" :> sentences)
                                    @@ ("sentence_count" :> Len(sentences))
                                    @@ results
                   /\ UNCHANGED <<failedStage, failedItems, faults>>
              ELSE /\ Fail("segment", outcome)
                   /\ faults' = faults + 1
                   /\ UNCHANGED <<files, pipe>>
    /\ UNCHANGED <<whisper_model, loadLog, dirItems, audioFiles, batch, started>>
    /\ UNCHANGED <<segVars, chVars, kpVars, sumVars>>

\* Step 3: extract_key_phrases
StageKeyPhrases ==
    /\ pc = "SEGMENTED"
    /\ stagesRun' = Append(stagesRun, "key_phrases")
    /\ LET key_phrases == extract_key_phrases(pipe.transcription, pipe.language)
       IN  /\ pipe' = [pipe EXCEPT !.key_phrases = key_phrases]
           /\ results' = ("key_phrases" :> key_phrases) @@ results
    /\ pc' = "KEY-PHRASES-EXTRACTED"
    /\ UNCHANGED <<instVars, failedStage, batchVars>>
    /\ UNCHANGED <<segVars, chVars, kpVars, sumVars>>

\* the failures a choice of the environment of summarize_text amounts to
FaultsOf(loadEnv, outcomes) ==
    (IF loadEnv = <<TRUE, TRUE>> THEN 0 ELSE 1)
        + Cardinality({ i \in DOMAIN outcomes : outcomes[i] # "ok" })

\* the loads a call of summarize_text tried: the last one set the handle, if
\* the handle is set after the call
LoadsLogged(call) ==
    [i \in 1..Len(call.loads) |->
        [handle |-> "summarizer", model |-> call.loads[i],
         ok |-> (i = Len(call.loads) /\ call.summarizer # None)]]

\* Step 4: summarize_text on the sentences joined
StageSummarize ==
    /\ pc = "KEY-PHRASES-EXTRACTED"
    /\ stagesRun' = Append(stagesRun, "summarize")
    /\ LET language == pipe.language
           combined_text == Join(<<" ">>, pipe.sentences)
       IN  \E loadEnv \in LoadEnvs(combined_text, summarizer) :
              \E outcomes \in RequestEnvs(combined_text, language, summarizer, loadEnv) :
                 /\ faults + FaultsOf(loadEnv, outcomes) <= MaxFaults
                 /\ faults' = faults + FaultsOf(loadEnv, outcomes)
                 /\ sumCall' = summarize_text(combined_text, language, summarizer,
                                               loadEnv, outcomes)
    /\ summarizer' = sumCall'.summarizer
    /\ loadLog' = loadLog \o LoadsLogged(sumCall')
    /\ nSum' = nSum + 1
    /\ IF sumCall'.outcome = "returned"
       THEN /\ pc' = "SUMMARIZED"
            /\ pipe' = [pipe EXCEPT !.summary = sumCall'.ret]
            /\ UNCHANGED <<results, failedStage, failedItems>>
       ELSE /\ Fail("summarize", "load_fail")
            /\ UNCHANGED pipe
    /\ UNCHANGED <<whisper_model, dirItems, audioFiles, files, batch, started>>
    /\ UNCHANGED <<segVars, chVars, kpVars>>

\* "Save summary", and the rest of the try block
StagePersist ==
    /\ pc = "SUMMARIZED"
    /\ stagesRun' = Append(stagesRun, "write_summary")
    /\ LET summary_file == SummaryPath(pipe.file_name, pipe.language)
           content == [language |-> pipe.language, summary |-> pipe.summary,
                       key_phrases |-> pipe.key_phrases]
       IN  \E outcome \in { "ok" } \cup MayFail({ "write_fail" }) :
              IF outcome = "ok"
              THEN /\ files' = Written(summary_file, content)
                   /\ pc' = "PERSISTED"
                   /\ results' = ("summary" :> pipe.summary)
                                    @@ ("summary_file" :> summary_file)
                                    @@ ("status" :> "success")
                                    @@ results
                   /\ UNCHANGED <<failedStage, failedItems, faults>>
              ELSE /\ Fail("write_summary", outcome)
                   /\ faults' = faults + 1
                   /\ UNCHANGED files
    /\ UNCHANGED <<whisper_model, loadLog, dirItems, audioFiles, pipe, batch, started>>
    /\ UNCHANGED <<segVars, chVars, kpVars, sumVars>>

(***************************************************************************)
(* process_batch                                                           *)
(***************************************************************************)
\* the call: results = {}
CallBatch ==
    /\ pc = "idle" /\ batch.state = "none" /\ started = <<>>
    /\ \E language \in Languages :
          batch' = [NoBatch EXCEPT !.state = "running", !.language = language]
    /\ UNCHANGED <<instVars, pipeVars, started, failedItems, faults>>
    /\ UNCHANGED <<segVars, chVars, kpVars, sumVars>>

\* the loop takes the next file and calls process_pipeline(file_name, language)
BatchCall ==
    /\ batch.state = "running" /\ pc = "idle"
    /\ batch.index < Len(dirItems)
    /\ Enter(dirItems[batch.index + 1], batch.language)
    /\ UNCHANGED <<instVars, batch, failedItems, faults>>
    /\ UNCHANGED <<segVars, chVars, kpVars, sumVars>>

\* a mutant: the loop ends at the first result whose status is error
BatchAfterBreak(result) ==
    IF result["status"] = "error" THEN Len(dirItems) ELSE batch.index + 1

\* the position of the loop after a result
BatchAfter(result) == batch.index + 1

\* results[file_name] = the dict process_pipeline returned
BatchCollect ==
    /\ batch.state = "running" /\ pc \in { "PERSISTED", "FAILED" }
    /\ batch' = [batch EXCEPT !.results = (pipe.file_name :> results) @@ @,
                               !.index = BatchAfter(results)]
    /\ pc' = "idle"
    /\ UNCHANGED <<instVars, pipe, results, stagesRun, failedStage,
                   started, failedItems, faults>>
    /\ UNCHANGED <<segVars, chVars, kpVars, sumVars>>

\* "return results"
BatchReturn ==
    /\ batch.state = "running" /\ pc = "idle"
    /\ batch.index = Len(dirItems)
    /\ batch' = [batch EXCEPT !.state = "done"]
    /\ UNCHANGED <<instVars, pipeVars, started, failedItems, faults>>
    /\ UNCHANGED <<segVars, chVars, kpVars, sumVars>>

\* a new instance; audio_dir holds up to MaxItems files, of which any may be
\* missing from audio/, where process_pipeline looks for them
Init ==
    /\ \E n \in 0..MaxItems :
          /\ dirItems = SubSeq(ItemNames, 1, n)
          /\ audioFiles \in SUBSET { ItemNames[k] : k \in 1..n }
    /\ whisper_model = None
    /\ loadLog = <<>>
    /\ files = EmptyDict
    /\ pc = "idle"
    /\ pipe = NoRun
    /\ results = EmptyDict
    /\ stagesRun = <<>>
    /\ failedStage = None
    /\ batch = NoBatch
    /\ started = <<>>
    /\ failedItems = {}
    /\ faults = 0
    /\ SumIdle
    /\ SegIdle
    /\ ChIdle
    /\ KpIdle

Next ==
    \/ CallPipeline
    \/ StageTranscribe
    \/ StageSegment
    \/ StageKeyPhrases
    \/ StageSummarize
    \/ StagePersist
    \/ CallBatch
    \/ BatchCall
    \/ BatchCollect
    \/ BatchReturn

Spec == Init /\ [][Next]_vars

(***************************************************************************)
(* Claims on process_pipeline and process_batch (Spec)                     *)
(***************************************************************************)
IsPrefix(s, t) == Len(s) <= Len(t) /\ SubSeq(t, 1, Len(s)) = s

Returned == pc \in { "PERSISTED", "FAILED" }

StatusOf(result) == IF "status" \in DOMAIN result THEN result["status"] ELSE None

\* what holds of a call of process_pipeline at every point of it
C1_State ==
    /\ IsPrefix(stagesRun, StageOrder)
    /\ pc = "FAILED" =>
          /\ stagesRun # <<>> /\ stagesRun[Len(stagesRun)] = failedStage
          /\ StatusOf(results) = "error"
          /\ "error" \in DOMAIN results
          /\ IsPrefix(<<"Pipeline failed: ">>, results["error"])
    /\ pc = "PERSISTED" => StatusOf(results) = "success"
    /\ pc \notin { "PERSISTED", "FAILED", "idle" } => StatusOf(results) = None
    /\ StatusOf(results) = "success" =>
          /\ stagesRun = StageOrder
          /\ failedStage = None
          /\ DOMAIN results = ResultKeys
          /\ results["summary_file"] \in DOMAIN files

\* a call that has returned runs no stage and changes nothing of its result
C1_Step ==
    Returned => /\ pc' \in { pc, "idle" }
                /\ stagesRun' = stagesRun
                /\ results' = results

\* C1: the stages of process_pipeline run in the order transcribe, segment,
\* key phrases, summarize, write summary; once a stage fails no later stage runs
\* and the call returns status=error with a message; status=success is returned
\* only after all five stages, with all the keys of the result
C1_PipelineStages == []C1_State /\ [][C1_Step]_vars

\* a call has succeeded after another, of the same batch, failed in a later
\* stage than the first
C1_Witness ==
    /\ pc = "PERSISTED"
    /\ \E k \in DOMAIN batch.results :
          /\ StatusOf(batch.results[k]) = "error"
          /\ "transcription" \in DOMAIN batch.results[k]

BatchDone == batch.state = "done"

Items == { dirItems[i] : i \in 1..Len(dirItems) }

\* C2: whatever items of a batch fail, a missing audio file included,
\* process_batch processes every item, and returns one key for each item, with
\* status=error for the items that failed and status=success for the others
C2_BatchIsolation ==
    BatchDone =>
        /\ started = dirItems
        /\ DOMAIN batch.results = Items
        /\ \A k \in Items :
              /\ StatusOf(batch.results[k]) = IF k \in failedItems THEN "error" ELSE "success"
              /\ k \notin audioFiles => k \in failedItems
              /\ (k \in audioFiles /\ faults = 0) => k \notin failedItems

\* three items of which the second has no audio file
C2_Witness ==
    /\ BatchDone
    /\ Len(dirItems) = 3
    /\ audioFiles = { dirItems[1], dirItems[3] }
    /\ StatusOf(batch.results[dirItems[1]]) = "success"
    /\ StatusOf(batch.results[dirItems[2]]) = "error"
    /\ StatusOf(batch.results[dirItems[3]]) = "success"

\* the stages of the call that completed before the one that failed
StagesDone == IF pc = "FAILED" THEN SubSeq(stagesRun, 1, Len(stagesRun) - 1) ELSE stagesRun

HasDone(stage) == \E i \in 1..Len(StagesDone) : StagesDone[i] = stage

\* the artifacts of the stages completed are on the disk as they were written
C11_State ==
    pc = "FAILED" =>
        /\ HasDone("transcribe") =>
              /\ TranscriptPath(pipe.file_name) \in DOMAIN files
              /\ files[TranscriptPath(pipe.file_name)]
                    = Transcript(pipe.language, pipe.transcription)
              /\ AudioContent(pipe.file_name).segments =>
                    /\ DetailedPath(pipe.file_name) \in DOMAIN files
                    /\ files[DetailedPath(pipe.file_name)]
                          = Detailed(pipe.language, pipe.file_name)
        /\ HasDone("segment") =>
              /\ SentencesPath(pipe.language) \in DOMAIN files
              /\ files[SentencesPath(pipe.language)].total = Len(pipe.sentences)
              /\ files[SentencesPath(pipe.language)].sentences
                    = [i \in 1..Len(pipe.sentences) |-> Strip(pipe.sentences[i])]
        /\ SummaryPath(pipe.file_name, pipe.language) \notin DOMAIN files

\* the step in which a stage fails, and the return that follows, take nothing
\* from the disk; after the first stage they leave the disk as it was
C11_Step ==
    (pc' = "FAILED") =>
        /\ \A f \in DOMAIN files : f \in DOMAIN files' /\ files'[f] = files[f]
        /\ (pc = "FAILED" \/ failedStage' # "transcribe") => files' = files

LoadedAt(handle) ==
    { i \in 1..Len(loadLog) : loadLog[i].handle = handle /\ loadLog[i].ok }

\* no load of the handle was tried after one that succeeded
LoadedOnce(handle) ==
    /\ Cardinality(LoadedAt(handle)) <= 1
    /\ \A i \in LoadedAt(handle) :
          \A j \in (i + 1)..Len(loadLog) : loadLog[j].handle # handle

C14_State ==
    /\ LoadedOnce("whisper_model")
    /\ LoadedOnce("summarizer")
    /\ (whisper_model # None) = (LoadedAt("whisper_model") # {})
    /\ (summarizer # None) = (LoadedAt("summarizer") # {})
    /\ \A i \in LoadedAt("summarizer") : summarizer = loadLog[i].model

\* the text the pipeline is about to hand to summarize_text
CombinedText == Join(<<" ">>, pipe.sentences)

C14_Step ==
    \* a handle that is set stays as it is
    /\ whisper_model # None => whisper_model' = whisper_model
    /\ summarizer # None => summarizer' = summarizer
    \* a use of a handle that is unset tries the load
    /\ (whisper_model = None /\ pc = "START" /\ pipe.file_name \in audioFiles) =>
          /\ Len(loadLog') = Len(loadLog) + 1
          /\ whisper_model' = IF loadLog'[Len(loadLog')].ok THEN Whisper ELSE None
    /\ (summarizer = None /\ pc = "KEY-PHRASES-EXTRACTED" /\ Summarizes(CombinedText)) =>
          /\ Len(loadLog') > Len(loadLog)
          /\ (summarizer' = None) = ~loadLog'[Len(loadLog')].ok
    \* a use of a handle that is set tries none
    /\ (whisper_model # None /\ summarizer # None) => loadLog' = loadLog

\* C14: over the pipeline runs of one instance each model handle is loaded with
\* success at most once: a handle that is set is never reloaded or replaced, and
\* is what every later item uses, while a load that failed leaves the handle
\* unset, and the next use tries the load again
C14_HandlesLoadedOnce == []C14_State /\ [][C14_Step]_vars

\* a first load of the transcription model failed and a later item loaded it;
\* the summarizer, loaded for one item, has served another
C14_Witness ==
    /\ \E i \in 1..Len(loadLog) : loadLog[i].handle = "whisper_model" /\ ~loadLog[i].ok
    /\ whisper_model # None
    /\ summarizer # None
    /\ nSum >= 2
    /\ sumCall.requests # <<>> /\ sumCall.loads = <<>>

(***************************************************************************)
(* Claims on the summarization adapter (SpecSum)                           *)
(***************************************************************************)
SumCalled == sumCall.outcome # "none"
SumShort  == SumCalled /\ Len(Words(sumCall.text)) < 20
SumQuiet  ==
    /\ sumCall.loads = <<>>
    /\ sumCall.requests = <<>>
    /\ sumCall.summarizer = sumCall.before
    /\ summarizer = sumCall.before

HasPrefix(s, prefix) ==
    Len(s) >= Len(prefix) /\ SubSeq(s, 1, Len(prefix)) = prefix

\* C5 as stated: for every text of fewer than 20 tokens, the empty and the
\* whitespace-only text included, summarize_text returns one and the same sentinel,
\* does not raise, and neither loads nor invokes the summarizer.
C5_Original ==
    SumShort => /\ sumCall.outcome = "returned"
                /\ sumCall.ret = ShortSentinel
                /\ SumQuiet

\* C5 amended: for every text of fewer than 20 tokens summarize_text does not raise
\* and neither loads nor invokes the summarizer; it returns the fixed empty-input
\* sentinel when the text is empty or whitespace only, and the fixed short-text
\* sentinel when the text has 1 to 19 tokens.
C5_ShortTextSentinels ==
    SumShort => /\ sumCall.outcome = "returned"
                /\ sumCall.ret = IF Len(Words(sumCall.text)) = 0
                                  THEN EmptySentinel ELSE ShortSentinel
                /\ SumQuiet

\* a text of 19 tokens given to an instance that has no summarizer yet
C5_Witness ==
    /\ SumShort
    /\ Len(Words(sumCall.text)) = 19
    /\ sumCall.before = None
    /\ sumCall.ret = ShortSentinel

\* both loads of the call failed
SumLoadFailed ==
    /\ SumCalled
    /\ Len(sumCall.loads) = 2
    /\ sumCall.summarizer = None

\* C6 as stated: when both the preferred and the fallback model fail to load, for a
\* text of 20 or more tokens, summarize_text does not raise and returns the first two
\* clauses of the whole text.
C6_Original ==
    (SumLoadFailed /\ Len(Words(sumCall.text)) >= 20) =>
        /\ sumCall.outcome = "returned"
        /\ sumCall.ret = TextFallback(sumCall.text, sumCall.language)

\* C7 as stated: every fallback summary that summarize_text returns, for one failing
\* chunk or for the whole text, starts with the fallback marker.
C7_Original ==
    (SumCalled /\ sumCall.outcome = "returned") =>
        /\ sumCall.degraded = "text" => HasPrefix(sumCall.ret, FallbackMarker)
        /\ sumCall.degraded = "chunk" =>
               \A k \in sumCall.fallbacks :
                   HasPrefix(sumCall.summaries[k], FallbackMarker)

\* the first two clauses of s, each followed by the full stop of the language
TwoClauses(s, language) ==
    LET stop == IF language = "ur" THEN UrFullStop ELSE "."
        parts == SplitOn({stop}, s)
    IN  IF Len(parts) = 1 THEN parts[1] \o <<stop>>
        ELSE parts[1] \o <<stop>> \o parts[2] \o <<stop>>

\* a call that got its summarizer and went through the chunks
SumLooped == SumCalled /\ Summarizes(sumCall.text) /\ sumCall.outcome = "returned"

\* one request per chunk, in the order of the chunks
RequestsPerChunk(chunks) ==
    /\ Len(sumCall.requests) = Len(chunks)
    /\ \A i \in 1..Len(chunks) :
          sumCall.requests[i].input =
              (IF sumCall.summarizer = Mt5 THEN Mt5Prefix ELSE <<>>) \o chunks[i]

\* the paragraphs of the chunks: the model's summary, or for a chunk whose
\* request failed the marked first two clauses of the chunk
Paragraphs(chunks) ==
    [i \in 1..Len(chunks) |->
        IF i \in sumCall.fallbacks
        THEN FallbackMarker \o TwoClauses(chunks[i], sumCall.language)
        ELSE ModelSummary(sumCall.summarizer, i)]

\* C13 as stated: for a text of 20 or more tokens whose summarizer loaded, the
\* summarizer is invoked once per chunk in order and the result is one paragraph
\* per chunk joined by blank lines, a failing chunk's paragraph being the fallback
\* of that chunk.
C13_Original ==
    SumLooped =>
        LET chunks == chunk_text(sumCall.text, sumCall.language, NoArg)
        IN  /\ RequestsPerChunk(chunks)
            /\ sumCall.ret = Join(ParagraphBreak, Paragraphs(chunks))

\* C13 amended: the summarizer is invoked once per chunk in the order of the
\* chunks, a failing request not stopping the later ones; the result is one
\* paragraph per chunk joined by blank lines, the paragraph of a chunk whose
\* request raised being the marked first two clauses of that chunk, unless a
\* failure outside the per-chunk handler occurs, and then the result is the
\* first two clauses of the whole text
C13_PerChunkSummaries ==
    SumLooped =>
        LET chunks == chunk_text(sumCall.text, sumCall.language, NoArg)
        IN  /\ RequestsPerChunk(chunks)
            /\ sumCall.degraded # "text" =>
                  sumCall.ret = Join(ParagraphBreak, Paragraphs(chunks))
            /\ sumCall.degraded = "text" =>
                  sumCall.ret = TwoClauses(sumCall.text, sumCall.language)

\* two chunks, of which the first failed and the second was summarized
C13_Witness ==
    /\ SumLooped
    /\ Len(sumCall.requests) = 2
    /\ sumCall.fallbacks = { 1 }
    /\ sumCall.degraded = "chunk"
    /\ sumCall.summaries[2] = ModelSummary(sumCall.summarizer, 2)

\* C8 as stated: a call with language ur uses the multilingual model and a call with
\* language en the English one, but a call whose preferred model failed to load
\* uses the English one.  Read in the claim's favour: a call with ur is excused as
\* well when the English model was the handle before the call.
C8_Original ==
    (SumCalled /\ sumCall.requests # <<>>) =>
        LET preferredFailed == Len(sumCall.loads) = 2
            used == sumCall.requests[1].model
        IN  IF sumCall.language = "en" \/ preferredFailed THEN used = Bart
            ELSE used = Mt5 \/ sumCall.before = Bart

=============================================================================
